---- MODULE Spec2Model ----
(***************************************************************************)
(* Group availability calendar: the availability model (default-available  *)
(* lookup, copy-on-write update), the Monday-first 42-cell month grid and  *)
(* the remote sync controller (bulk refresh, optimistic write, push        *)
(* subscription) of the remote-backed component.                           *)
(*                                                                         *)
(* A Date is modelled by its local calendar day, counted in days since     *)
(* 1970-01-01; an ISO date string "YYYY-MM-DD" by the number YYYYMMDD,     *)
(* which orders as the zero-padded string does.                            *)
(***************************************************************************)
EXTENDS Integers, Sequences, FiniteSets, TLC

VARIABLES
    \* --- the component (remote-backed variant) and its remote store ---
    cursor,         \* first day of the visible month
    currentUserId,  \* "" or a person id
    availability,   \* in-memory Availability
    db,             \* remote availability table: rows keyed by (person_id, day)
    writes,         \* upserts in flight, in issue order
    refreshes,      \* range queries in flight, in issue order
    pushes,         \* change notifications in flight
    lastEv,         \* the handler that ran last, with its inputs (history)
    nEvents,        \* user and environment events so far
    people,         \* the roster, ordered by name (ids only)
    selectedIds,    \* the selection set
    showMode,       \* "all", "none" or "onlyUnavailable"
    mounted,        \* the component has not been torn down
    timers,         \* active intervals: the cursor each one's callback closes over
    channels,       \* active push subscriptions
    nSubscribed,    \* subscriptions created so far (history)
    \* --- the availability model on its own ---
    mA,             \* the mapping under test
    mPrev,          \* the mapping before the last setStatus call
    mCall,          \* the arguments of the last setStatus call
    mWritten,       \* the (person, day) pairs written since the empty mapping
    mFromEmpty,     \* the run started from the empty mapping
    \* --- the availability model over object references ---
    heap,           \* the objects allocated so far, by reference
    hRoot,          \* the reference held by `a`
    hOld,           \* the reference `a` held before the last setStatus call
    hSnap,          \* the heap before the last setStatus call
    hCall,          \* the arguments of the last setStatus call
    \* --- the month grid on its own ---
    gToday,         \* today, fixed when the component is constructed
    gCursor,        \* the cursor
    gMonthDays,     \* the cells memoised for (gCursor, gToday)
    gOp,            \* the handler that set the cursor last
    \* --- the local preference store and the component's preferences ---
    localStorage,       \* what the storage key holds
    lsMode,             \* this browser's storage works, is disabled, or is full
    tz,                 \* the browser's time zone, minutes east of UTC
    prefSelectedIds,    \* selectedIds, in insertion order
    prefCurrentUserId,  \* currentUserId
    prefCursor,         \* cursor
    prefPeople,         \* people
    prefPhase,          \* "mounting", "ready" or "crashed"
    prefFetch,          \* the people query: "none", "sent", "ok", "failed"
    prefLoaded,         \* what loadState returned, until the state changes again
    prefSince,          \* what ran since mount: "mount", "fetch", "user"
    prefEnd,            \* the state the previous session ended with
    lsWritten,          \* the values the last step passed to saveState (history)
    sawLegacy,          \* the load effect met legacy fields (history)
    nSessions,          \* reloads so far
    nPrefEvents,        \* user changes of a preference so far
    \* --- the password gate ---
    unlocked,       \* the gate's unlocked state
    pw,             \* the text of the password input
    error,          \* null or the error message shown
    unlockFlag,     \* what the storage holds under UNLOCK_KEY
    gateStorage,    \* this session's storage works, is disabled, or is full
    gateShows,      \* what the gate rendered: "form" or "calendar"
    gateOp,         \* the handler that ran last (history)
    nGateEvents     \* handler runs and reloads so far

dataVars == <<cursor, currentUserId, availability, db, writes, refreshes, pushes>>
uiVars == <<people, selectedIds, showMode>>
lifeVars == <<mounted, timers, channels, nSubscribed>>
syncVars == <<dataVars, lastEv, nEvents, uiVars, lifeVars>>
modelVars == <<mA, mPrev, mCall, mWritten, mFromEmpty>>
heapVars == <<heap, hRoot, hOld, hSnap, hCall>>
gridVars == <<gToday, gCursor, gMonthDays, gOp>>
prefVars == <<localStorage, lsMode, tz, prefSelectedIds, prefCurrentUserId,
              prefCursor, prefPeople, prefPhase, prefFetch, prefLoaded,
              prefSince, prefEnd, lsWritten, sawLegacy, nSessions, nPrefEvents>>
gateVars == <<unlocked, pw, error, unlockFlag, gateStorage, gateShows, gateOp,
              nGateEvents>>
vars == <<syncVars, modelVars, heapVars, gridVars, prefVars, gateVars>>
\* What the steps of each part leave alone.
nonSyncVars == <<modelVars, heapVars, gridVars, prefVars, gateVars>>
\* What the data handlers of the sync controller leave alone.
nonDataVars == <<uiVars, lifeVars, nonSyncVars>>
nonModelVars == <<syncVars, heapVars, gridVars, prefVars, gateVars>>
nonHeapVars == <<syncVars, modelVars, gridVars, prefVars, gateVars>>
nonGridVars == <<syncVars, modelVars, heapVars, prefVars, gateVars>>
nonPrefVars == <<syncVars, modelVars, heapVars, gridVars, gateVars>>
nonGateVars == <<syncVars, modelVars, heapVars, gridVars, prefVars>>

(* ----------------------------- bounds ---------------------------------- *)

\* Months the cursor may move forward from the month of "today".
MonthSpan == 1
\* User and environment events (clicks, selects, month changes, timer
\* ticks, writes by other clients) in one run.
MaxEvents == 2
\* Requests and notifications in flight at once.
MaxRefreshes == 2
MaxWrites == 1
MaxPushes == 1

(* --------------------------- Date utilities ---------------------------- *)

\* Days since 1970-01-01 of the civil date y-m-d (m in 1..12).
DaysFromCivil(y, m, d) ==
    LET yy  == IF m <= 2 THEN y - 1 ELSE y
        era == yy \div 400
        yoe == yy - era * 400
        mp  == (m + 9) % 12
        doy == (153 * mp + 2) \div 5 + d - 1
        doe == yoe * 365 + yoe \div 4 - yoe \div 100 + doy
    IN  era * 146097 + doe - 719468

\* The civil date [y, m (1..12), d] of a day number, by way of the day of
\* the 400-year era (doe), the year of the era (yoe), the day of the
\* March-based year (doy) and its month (mp).
CivilFromMonth(era, yoe, doy, mp) ==
    [y |-> yoe + era * 400 + (IF mp < 10 THEN 0 ELSE 1),
     m |-> IF mp < 10 THEN mp + 3 ELSE mp - 9,
     d |-> doy - (153 * mp + 2) \div 5 + 1]

CivilFromDoy(era, yoe, doy) == CivilFromMonth(era, yoe, doy, (5 * doy + 2) \div 153)

CivilFromYoe(era, doe, yoe) ==
    CivilFromDoy(era, yoe, doe - (365 * yoe + yoe \div 4 - yoe \div 100))

CivilFromDoe(era, doe) ==
    CivilFromYoe(era, doe,
                 (doe - doe \div 1460 + doe \div 36524 - doe \div 146096) \div 365)

CivilFromEra(zz, era) == CivilFromDoe(era, zz - era * 146097)

CivilFromDays(z) == CivilFromEra(z + 719468, (z + 719468) \div 146097)

\* new Date(y, m, d): month m is 0-based and, like the day, may overflow.
NewDate(y, m, d) == DaysFromCivil(y + m \div 12, (m % 12) + 1, 1) + (d - 1)

getFullYear(D) == CivilFromDays(D).y
getMonth(D)    == CivilFromDays(D).m - 1
getDate(D)     == CivilFromDays(D).d
\* 0 = Sunday .. 6 = Saturday; 1970-01-01 was a Thursday.
getDay(D)      == (D + 4) % 7

isoDate(D) == getFullYear(D) * 10000 + (getMonth(D) + 1) * 100 + getDate(D)

startOfMonth(D) == NewDate(getFullYear(D), getMonth(D), 1)

endOfMonth(D) == NewDate(getFullYear(D), getMonth(D) + 1, 0)

addDays(D, n) == NewDate(getFullYear(D), getMonth(D), getDate(D) + n)

\* Mutant: the months are not compared.
sameDay_IgnoresMonth(A, B) ==
    /\ getFullYear(A) = getFullYear(B)
    /\ getDate(A) = getDate(B)

sameDay(A, B) ==
    /\ getFullYear(A) = getFullYear(B)
    /\ getMonth(A) = getMonth(B)
    /\ getDate(A) = getDate(B)

\* Mutant: the native index, 0 = Sunday, is returned as it is.
mondayFirstDow_SundayFirst(D) == getDay(D)

mondayFirstDow(D) == (getDay(D) + 6) % 7

GridCells == 42

\* One cell of the grid.
MonthCell(d, cur, tod) ==
    [date    |-> d,
     inMonth |-> getMonth(d) = getMonth(cur),
     isToday |-> sameDay(d, tod)]

\* The loop of monthDays: 42 consecutive days from firstCell.
MonthCellsFrom(firstCell, cur, tod) ==
    [i \in 1..GridCells |-> MonthCell(addDays(firstCell, i - 1), cur, tod)]

\* The 42 cells of the month of `cur`, as a sequence of [date, inMonth,
\* isToday], from the Monday on or before the first of the month.
FirstCell(start) == addDays(start, 0 - mondayFirstDow(start))

monthDays(cur, tod) == MonthCellsFrom(FirstCell(startOfMonth(cur)), cur, tod)

(* -------------------------- Availability model ------------------------- *)

Persons == {"p1", "p2"}

\* The record with no keys ({} in the source).
EmptyObj == <<>>

\* Mutant: the `dateStr in per` test is forgotten, so a missing day reads
\* undefined, which is not true.
getStatus_NoInTest(avail, personId, dateStr) ==
    IF personId \notin DOMAIN avail
    THEN "available"
    ELSE LET per == avail[personId]
         IN  IF dateStr \in DOMAIN per /\ per[dateStr] = TRUE
             THEN "available" ELSE "unavailable"

getStatusFromAvailability(avail, personId, dateStr) ==
    IF personId \notin DOMAIN avail
    THEN "available"
    ELSE LET per == avail[personId]
         IN  IF dateStr \notin DOMAIN per
             THEN "available"
             ELSE IF per[dateStr] = TRUE THEN "available" ELSE "unavailable"

\* Mutant: the stored flag is inverted.
setStatus_InvertedFlag(avail, personId, dateStr, nextStatus) ==
    LET old == IF personId \in DOMAIN avail
               THEN avail[personId] ELSE EmptyObj
        per == [k \in (DOMAIN old) \cup {dateStr} |->
                    IF k = dateStr THEN nextStatus = "unavailable" ELSE old[k]]
    IN  [q \in (DOMAIN avail) \cup {personId} |->
            IF q = personId THEN per ELSE avail[q]]

\* Mutant: the person's record is not copied, so its other days are lost.
setStatus_DropsOtherDays(avail, personId, dateStr, nextStatus) ==
    LET per == [k \in {dateStr} |-> nextStatus = "available"]
    IN  [q \in (DOMAIN avail) \cup {personId} |->
            IF q = personId THEN per ELSE avail[q]]

setStatusInAvailability(avail, personId, dateStr, nextStatus) ==
    LET old == IF personId \in DOMAIN avail
               THEN avail[personId] ELSE EmptyObj
        per == [k \in (DOMAIN old) \cup {dateStr} |->
                    IF k = dateStr THEN nextStatus = "available" ELSE old[k]]
    IN  [q \in (DOMAIN avail) \cup {personId} |->
            IF q = personId THEN per ELSE avail[q]]

(* ------------- Specification of the availability model ----------------- *)

\* The days of the self-tests, and one more.
ModelDays == {20260201, 20260202}
QueryDays == ModelDays \cup {20260203}
QueryPersons == Persons \cup {"p3"}
Statuses == {"available", "unavailable"}

PerInputs == UNION {[D -> BOOLEAN] : D \in SUBSET ModelDays}
AvailInputs == UNION {[S -> PerInputs] : S \in SUBSET Persons}

NoCall == [called |-> FALSE, p |-> "", d |-> 0, s |-> ""]
NoEv == [op |-> "none", kind |-> "", p |-> "", d |-> 0, v |-> FALSE,
         rows |-> {}, startISO |-> 0, endISO |-> 0,
         stale |-> FALSE, wasFresh |-> FALSE]

\* null / undefined in place of an object reference.
NullRef == 0
NoHeapCall == [called |-> FALSE, p |-> "", d |-> 0, s |-> "", n |-> 0]

HeapIdle ==
    /\ heap = <<>>
    /\ hRoot = NullRef
    /\ hOld = NullRef
    /\ hSnap = <<>>
    /\ hCall = NoHeapCall

\* JS values of the stored object's fields and of the component's state:
\* type, string, number (a date string carries its UTC instant in minutes)
\* and array elements.
Undefined == [t |-> "undefined", s |-> "", n |-> 0, q |-> <<>>]
JStr(x) == [t |-> "string", s |-> x, n |-> 0, q |-> <<>>]
JNum(k) == [t |-> "number", s |-> "", n |-> k, q |-> <<>>]
JArr(q) == [t |-> "array", s |-> "", n |-> 0, q |-> q]
JObj == [t |-> "object", s |-> "", n |-> 0, q |-> <<>>]
JDate(instant) == [t |-> "string", s |-> "date", n |-> instant, q |-> <<>>]

\* What the storage key holds: nothing ("absent"), text that does not parse
\* ("garbage"), or the text of a JSON value: a falsy one, a truthy
\* primitive, or an object with its fields.  What loadState returns: the
\* parsed value or null.
Blob(kind) == [kind |-> kind, fields |-> <<>>]
NullBlob == Blob("null")

NoEnd == [valid |-> FALSE, S |-> {}, u |-> JStr(""), c |-> 0, mode |-> ""]

PrefIdle ==
    /\ localStorage = Blob("absent")
    /\ lsMode = "ok"
    /\ tz = 0
    /\ prefSelectedIds = <<>>
    /\ prefCurrentUserId = JStr("")
    /\ prefCursor = 0
    /\ prefPeople = <<>>
    /\ prefPhase = "none"
    /\ prefFetch = "none"
    /\ prefLoaded = NullBlob
    /\ prefSince = "none"
    /\ prefEnd = NoEnd
    /\ lsWritten = {}
    /\ sawLegacy = "no"
    /\ nSessions = 0
    /\ nPrefEvents = 0

GridIdle ==
    /\ gToday = 0
    /\ gCursor = 0
    /\ gMonthDays = <<>>
    /\ gOp = "none"

NoError == "null"

GateIdle ==
    /\ unlocked = FALSE
    /\ pw = ""
    /\ error = NoError
    /\ unlockFlag = "absent"
    /\ gateStorage = "ok"
    /\ gateShows = "none"
    /\ gateOp = "none"
    /\ nGateEvents = 0

SyncIdle ==
    /\ cursor = 0
    /\ currentUserId = ""
    /\ availability = EmptyObj
    /\ db = {}
    /\ writes = <<>>
    /\ refreshes = <<>>
    /\ pushes = {}
    /\ lastEv = NoEv
    /\ nEvents = 0
    /\ people = <<>>
    /\ selectedIds = {}
    /\ showMode = "all"
    /\ mounted = FALSE
    /\ timers = <<>>
    /\ channels = 0
    /\ nSubscribed = 0

ModelInit ==
    /\ mA \in AvailInputs
    /\ mPrev = mA
    /\ mCall = NoCall
    /\ mWritten = {}
    /\ mFromEmpty = (mA = EmptyObj)
    /\ SyncIdle
    /\ HeapIdle
    /\ GridIdle
    /\ PrefIdle
    /\ GateIdle

\* One call a = setStatusInAvailability(a, p, d, s), as in runSelfTests.
CallSetStatus(p, d, s) ==
    /\ mPrev' = mA
    /\ mA' = setStatusInAvailability(mA, p, d, s)
    /\ mCall' = [called |-> TRUE, p |-> p, d |-> d, s |-> s]
    /\ mWritten' = IF mFromEmpty THEN mWritten \cup {<<p, d>>} ELSE mWritten
    /\ UNCHANGED <<mFromEmpty, nonModelVars>>

ModelNext == \E p \in Persons, d \in ModelDays, s \in Statuses : CallSetStatus(p, d, s)

SpecModel == ModelInit /\ [][ModelNext]_vars

(* ------------------- Claims on the availability model ------------------ *)

\* C8: getStatus returns unavailable if and only if the mapping holds an
\* entry for (p, d) whose value is false; a missing person, a missing day
\* and an explicit true all give available.  After any sequence of
\* setStatus calls from the empty mapping, every pair never written is
\* available.
C8_DefaultAvailable ==
    /\ \A p \in QueryPersons, d \in QueryDays :
          /\ getStatusFromAvailability(mA, p, d) \in Statuses
          /\ (getStatusFromAvailability(mA, p, d) = "unavailable")
               <=> (/\ p \in DOMAIN mA
                    /\ d \in DOMAIN mA[p]
                    /\ mA[p][d] = FALSE)
    /\ mFromEmpty =>
          \A p \in QueryPersons, d \in QueryDays :
             <<p, d>> \notin mWritten
                => getStatusFromAvailability(mA, p, d) = "available"

\* From the empty mapping: p1 was made unavailable on one day, has no entry
\* for the other day, and p2 has no entry at all.
C8_Witness ==
    /\ mFromEmpty
    /\ mWritten = {<<"p1", 20260201>>}
    /\ getStatusFromAvailability(mA, "p1", 20260201) = "unavailable"
    /\ "p1" \in DOMAIN mA /\ 20260202 \notin DOMAIN mA["p1"]
    /\ "p2" \notin DOMAIN mA

\* C9: round-trip law, getStatus(setStatus(a, p, d, s), p, d) = s; in
\* particular unavailable after setting unavailable, and available again
\* after a further setting to available.
C9_RoundTrip ==
    mCall.called => getStatusFromAvailability(mA, mCall.p, mCall.d) = mCall.s

\* A pair that setStatus had made unavailable is set back to available.
C9_Witness ==
    /\ mFromEmpty
    /\ mCall.called /\ mCall.s = "available"
    /\ getStatusFromAvailability(mPrev, mCall.p, mCall.d) = "unavailable"
    /\ getStatusFromAvailability(mA, mCall.p, mCall.d) = "available"

\* C10: setStatus on (p, d) leaves the status of every other pair (other
\* person, or same person and other day) as it was.
C10_OtherPairsUnchanged ==
    mCall.called =>
        \A p \in QueryPersons, d \in QueryDays :
            <<p, d>> # <<mCall.p, mCall.d>>
               => getStatusFromAvailability(mA, p, d)
                    = getStatusFromAvailability(mPrev, p, d)

\* The call wrote (p1, 02-01) while p1 was unavailable on 02-02 and p2 was
\* unavailable on 02-01; both stay unavailable.
C10_Witness ==
    /\ mCall.called /\ mCall.p = "p1" /\ mCall.d = 20260201
    /\ getStatusFromAvailability(mPrev, "p1", 20260202) = "unavailable"
    /\ getStatusFromAvailability(mPrev, "p2", 20260201) = "unavailable"
    /\ getStatusFromAvailability(mA, "p1", 20260202) = "unavailable"
    /\ getStatusFromAvailability(mA, "p2", 20260201) = "unavailable"

(* ------------- The availability model over object references ---------- *)

\* An Availability value is a reference to an object whose properties hold
\* references to the per-person objects; `heap` maps each reference to the
\* object's own properties.

\* setStatus calls in one run.
MaxCalls == 2

\* The reference of the next object literal.
Alloc(h) ==
    IF DOMAIN h = {} THEN 1
    ELSE 1 + (CHOOSE r \in DOMAIN h : \A q \in DOMAIN h : q <= r)

\* { ...(x || {}) }: the own properties of x, or none.
Spread(h, ref) == IF ref = NullRef THEN EmptyObj ELSE h[ref]

\* next[personId]: the reference, or undefined.
PropRef(obj, personId) ==
    IF personId \in DOMAIN obj THEN obj[personId] ELSE NullRef

WithProp(obj, k, v) ==
    [q \in (DOMAIN obj) \cup {k} |-> IF q = k THEN v ELSE obj[q]]

Store(h, ref, obj) ==
    [r \in (DOMAIN h) \cup {ref} |-> IF r = ref THEN obj ELSE h[r]]

\* Mutant: `per = next[personId] || {}`, the person's object is not copied
\* and the assignment writes into the caller's object.
setStatus_InPlacePer(h, a, personId, dateStr, nextStatus) ==
    LET nextRef == Alloc(h)
        oldPer  == PropRef(Spread(h, a), personId)
        perRef  == IF oldPer = NullRef THEN nextRef + 1 ELSE oldPer
        per     == WithProp(Spread(h, oldPer), dateStr, nextStatus = "available")
        next    == WithProp(Spread(h, a), personId, perRef)
    IN  [heap |-> Store(Store(h, nextRef, next), perRef, per), ret |-> nextRef]

\* setStatusInAvailability on references: two object literals are
\* allocated, `next` and `per`, and only they are assigned to.
setStatusInAvailabilityRef(h, a, personId, dateStr, nextStatus) ==
    LET nextRef == Alloc(h)
        perRef  == nextRef + 1
        oldPer  == PropRef(Spread(h, a), personId)
        per     == WithProp(Spread(h, oldPer), dateStr, nextStatus = "available")
        next    == WithProp(Spread(h, a), personId, perRef)
    IN  [heap |-> Store(Store(h, nextRef, next), perRef, per), ret |-> nextRef]

\* The mapping a reference denotes in a heap.
Deref(h, a) ==
    IF a = NullRef THEN EmptyObj
    ELSE [p \in DOMAIN h[a] |-> h[h[a][p]]]

\* getStatusFromAvailability through the reference.
getStatusRef(h, a, personId, dateStr) ==
    getStatusFromAvailability(Deref(h, a), personId, dateStr)

\* The objects of a mapping: the root at reference 1, p1's days at 2 and
\* p2's days at 3.
PersonRef(p) == IF p = "p1" THEN 2 ELSE 3
ToHeap(avail) ==
    [r \in {1} \cup {PersonRef(p) : p \in DOMAIN avail} |->
        IF r = 1 THEN [p \in DOMAIN avail |-> PersonRef(p)]
        ELSE avail[CHOOSE p \in DOMAIN avail : PersonRef(p) = r]]

HeapInit ==
    /\ \/ \E avail \in AvailInputs : heap = ToHeap(avail) /\ hRoot = 1
       \/ heap = <<>> /\ hRoot = NullRef
    /\ hOld = hRoot
    /\ hSnap = heap
    /\ hCall = NoHeapCall
    /\ SyncIdle
    /\ mA = EmptyObj /\ mPrev = EmptyObj /\ mCall = NoCall
    /\ mWritten = {} /\ mFromEmpty = FALSE
    /\ GridIdle
    /\ PrefIdle
    /\ GateIdle

\* a = setStatusInAvailability(a, p, d, s); the caller keeps the old
\* reference, as a renderer comparing previous and next does.
CallSetStatusRef(p, d, s) ==
    /\ hCall.n < MaxCalls
    /\ LET res == setStatusInAvailabilityRef(heap, hRoot, p, d, s)
       IN  /\ heap' = res.heap
           /\ hRoot' = res.ret
    /\ hOld' = hRoot
    /\ hSnap' = heap
    /\ hCall' = [called |-> TRUE, p |-> p, d |-> d, s |-> s, n |-> hCall.n + 1]
    /\ UNCHANGED nonHeapVars

HeapNext == \E p \in Persons, d \in ModelDays, s \in Statuses : CallSetStatusRef(p, d, s)

SpecHeap == HeapInit /\ [][HeapNext]_vars

\* C11: setStatus is copy-on-write.  It returns a reference to a new
\* object; every object that existed before the call, the input mapping and
\* its per-person objects among them, has the properties it had, so the
\* input still gives every pair, (p, d) included, the status it gave.
C11_CopyOnWrite ==
    hCall.called =>
        /\ hRoot \notin DOMAIN hSnap
        /\ \A r \in DOMAIN hSnap : heap[r] = hSnap[r]
        /\ \A p \in QueryPersons, d \in QueryDays :
              getStatusRef(heap, hOld, p, d) = getStatusRef(hSnap, hOld, p, d)
        /\ getStatusRef(heap, hRoot, hCall.p, hCall.d) = hCall.s

\* The call changed the status of a pair the input had an entry for: the
\* result gives the new status and the input still gives the old one.
C11_Witness ==
    /\ hCall.called
    /\ hOld # NullRef
    /\ hCall.p \in DOMAIN heap[hOld]
    /\ hCall.d \in DOMAIN heap[heap[hOld][hCall.p]]
    /\ getStatusRef(heap, hOld, hCall.p, hCall.d) # hCall.s
    /\ getStatusRef(heap, hRoot, hCall.p, hCall.d) = hCall.s

(* --------------------------- The month grid ---------------------------- *)

\* Months on either side of the month of today that the cursor visits.
GridSpan == 2

\* The days `new Date()` gives at construction: the first, the fifteenth
\* and the twenty-eighth of every month of a leap year and of the two
\* years whose February begins on a Sunday and on a Monday.
GridYears == {2024, 2026, 2027}
GridDates == {1, 15, 28}
TodayInputs == {NewDate(y, m, d) : y \in GridYears, m \in 0..11, d \in GridDates}

\* The months between two dates.
MonthIndex(D) == getFullYear(D) * 12 + getMonth(D)

GridInit ==
    /\ gToday \in TodayInputs
    /\ gCursor = startOfMonth(gToday)
    /\ gMonthDays = monthDays(gCursor, gToday)
    /\ gOp = "init"
    /\ SyncIdle
    /\ mA = EmptyObj /\ mPrev = EmptyObj /\ mCall = NoCall
    /\ mWritten = {} /\ mFromEmpty = FALSE
    /\ HeapIdle
    /\ PrefIdle
    /\ GateIdle

\* setCursor(c) and the re-render, which recomputes the memoised cells.
GridSetCursor(c, op) ==
    /\ MonthIndex(c) - MonthIndex(gToday) \in (0 - GridSpan)..GridSpan
    /\ gCursor' = c
    /\ gMonthDays' = monthDays(c, gToday)
    /\ gOp' = op
    /\ UNCHANGED <<gToday, nonGridVars>>

GridPrevMonth ==
    GridSetCursor(startOfMonth(NewDate(getFullYear(gCursor), getMonth(gCursor) - 1, 1)),
                  "prevMonth")

GridNextMonth ==
    GridSetCursor(startOfMonth(NewDate(getFullYear(gCursor), getMonth(gCursor) + 1, 1)),
                  "nextMonth")

GridGoToday == GridSetCursor(startOfMonth(gToday), "goToday")

GridNext == GridPrevMonth \/ GridNextMonth \/ GridGoToday

SpecGrid == GridInit /\ [][GridNext]_vars

\* The cells whose isToday is set.
TodayCells == {i \in DOMAIN gMonthDays : gMonthDays[i].isToday}

\* C12: for every cursor the grid has exactly 42 cells of consecutive
\* calendar days; its first cell is the Monday on or before the first of
\* the cursor's month, so cell 0 and cell 7 are Mondays; for the cursor
\* 2026-02-01 the first cell is 2026-01-26.
C12_GridShape ==
    /\ Len(gMonthDays) = 42
    /\ \A i \in 1..41 : gMonthDays[i + 1].date = gMonthDays[i].date + 1
    /\ getDay(gMonthDays[1].date) = 1
    /\ getDay(gMonthDays[8].date) = 1
    /\ gMonthDays[1].date <= startOfMonth(gCursor)
    /\ startOfMonth(gCursor) - gMonthDays[1].date < 7
    /\ isoDate(gCursor) = 20260201 => isoDate(gMonthDays[1].date) = 20260126

\* The cursor was moved to February 2026, whose first day is a Sunday: the
\* grid begins six days earlier, in January.
C12_Witness ==
    /\ gOp = "nextMonth"
    /\ isoDate(gCursor) = 20260201
    /\ isoDate(gMonthDays[1].date) = 20260126
    /\ ~gMonthDays[1].inMonth
    /\ gMonthDays[7].inMonth

\* C13: isToday is set for exactly one cell when today lies between the
\* first and the last cell of the grid, and for no cell otherwise.
C13_TodayOnce ==
    IF gMonthDays[1].date <= gToday /\ gToday <= gMonthDays[Len(gMonthDays)].date
    THEN /\ Cardinality(TodayCells) = 1
         /\ \A i \in TodayCells : gMonthDays[i].date = gToday
    ELSE TodayCells = {}

\* The cursor was moved off the month of today and today is still shown,
\* in a cell of the neighbouring month.
C13_Witness ==
    /\ gOp \in {"prevMonth", "nextMonth"}
    /\ Cardinality(TodayCells) = 1
    /\ \A i \in TodayCells : ~gMonthDays[i].inMonth /\ gMonthDays[i].date = gToday

\* The cursor was moved and today is outside the 42 days shown.
C13_WitnessNone ==
    /\ gOp \in {"prevMonth", "nextMonth"}
    /\ TodayCells = {}
    /\ (gToday < gMonthDays[1].date \/ gToday > gMonthDays[42].date)

(* ------------------------ Remote sync controller ----------------------- *)

\* const [today] = useState(() => new Date()): 2026-02-10 in every run.
today == NewDate(2026, 1, 10)

\* The months the cursor visits.
Cursors ==
    {startOfMonth(NewDate(getFullYear(today), getMonth(today) + k, 1)) :
        k \in 0..MonthSpan}

\* The grid cell (1-based: the first Sunday shown) a click lands on, and the
\* days it shows in the visited months.
ClickCells == {7}
DbDays == {isoDate(monthDays(c, today)[i].date) : c \in Cursors, i \in ClickCells}


\* useMemo(monthDays, [cursor, today]): the cells of each visited month.
monthDaysMemo == [c \in Cursors |-> monthDays(c, today)]

\* A missing (undefined) person reference or day of a notified row.
NoPerson == ""
NoDay == 0

Row(p, d, v) == [person_id |-> p, day |-> d, available |-> v]
\* payload.new of a DELETE notification: {}.
EmptyPayload == Row(NoPerson, NoDay, FALSE)

\* upsert keyed by (person_id, day); delete; the range query of the store.
Upsert(table, row) ==
    {r \in table : ~(r.person_id = row.person_id /\ r.day = row.day)} \cup {row}
DeleteRow(table, p, d) == {r \in table : ~(r.person_id = p /\ r.day = d)}
RangeQuery(table, startISO, endISO) ==
    {r \in table : r.day >= startISO /\ r.day <= endISO}

\* A notification is lost when the channel is full.
Notify(ps, n) == IF Cardinality(ps) < MaxPushes THEN ps \cup {n} ELSE ps

Remove(seq, i) == SubSeq(seq, 1, i - 1) \o SubSeq(seq, i + 1, Len(seq))

\* Mutant: next[pid] is reset for every row, so only one day per person is kept.
RowsToAvailability_ResetsPerson(rows) ==
    [p \in {r.person_id : r \in rows} |->
        LET last == CHOOSE r \in rows :
                       /\ r.person_id = p
                       /\ \A q \in rows : q.person_id = p => q.day <= r.day
        IN  [d \in {last.day} |-> last.available]]

\* The loop of refreshAvailability that builds `next` from the rows.
RowsToAvailability(rows) ==
    [p \in {r.person_id : r \in rows} |->
        [d \in {r.day : r \in {q \in rows : q.person_id = p}} |->
            (CHOOSE r \in rows : r.person_id = p /\ r.day = d).available]]

\* refreshAvailability up to its await: the range query over the cells of
\* the render `cur` it closes over, added to the requests in flight.
\* kind, p, d, v record who called (history only).
refreshAvailability(rs, cur, kind, p, d, v) ==
    LET cells == monthDaysMemo[cur]
    IN  IF Len(cells) = 0
        THEN rs
        ELSE Append(rs, [startISO  |-> isoDate(cells[1].date),
                         endISO    |-> isoDate(cells[Len(cells)].date),
                         stage     |-> "sent",
                         data      |-> {},
                         overtaken |-> FALSE,
                         kind      |-> kind,
                         p |-> p, d |-> d, v |-> v])

\* What a successful refresh of the visible window would show now.
FreshView ==
    LET cells == monthDaysMemo[cursor]
    IN  RowsToAvailability(RangeQuery(db, isoDate(cells[1].date),
                                          isoDate(cells[Len(cells)].date)))

ModelIdle ==
    /\ mA = EmptyObj
    /\ mPrev = EmptyObj
    /\ mCall = NoCall
    /\ mWritten = {}
    /\ mFromEmpty = FALSE

InitDbs == {{}, {Row("p2", d, FALSE) : d \in DbDays}}

\* The rows of the people table, ordered by name.
Roster == <<"p1", "p2">>
\* people.map((p) => p.id), as a set.
Ids(ppl) == {ppl[k] : k \in 1..Len(ppl)}

\* The component after mount with the roster loaded (which selects
\* everyone) and no saved preferences: the mount effects have issued the
\* first refresh, subscribed to the channel and started the interval.
Init ==
    /\ cursor = startOfMonth(today)
    /\ currentUserId = ""
    /\ availability = EmptyObj
    /\ db \in InitDbs
    /\ writes = <<>>
    /\ refreshes = refreshAvailability(<<>>, startOfMonth(today), "effect",
                                       NoPerson, NoDay, FALSE)
    /\ pushes = {}
    /\ lastEv = NoEv
    /\ nEvents = 0
    /\ people = Roster
    /\ selectedIds = Ids(Roster)
    /\ showMode = "all"
    /\ mounted = TRUE
    /\ timers = <<startOfMonth(today)>>
    /\ channels = 1
    /\ nSubscribed = 1
    /\ ModelIdle
    /\ HeapIdle
    /\ GridIdle
    /\ PrefIdle
    /\ GateIdle

Event == nEvents < MaxEvents /\ nEvents' = nEvents + 1
\* An event of the rendered component: none once it is torn down.
UserEvent == mounted /\ Event

\* <select value={currentUserId} onChange=...>: one of the roster, or "".
SelectUser(u) ==
    /\ UserEvent
    /\ u # currentUserId
    /\ currentUserId' = u
    /\ lastEv' = [NoEv EXCEPT !.op = "select", !.p = u]
    /\ UNCHANGED <<cursor, availability, db, writes, refreshes, pushes>>

\* Mutant: the current-user guard is missing.
onDayClick_NoGuard(dateObj) ==
    LET dStr == isoDate(dateObj)
        cur  == getStatusFromAvailability(availability, currentUserId, dStr)
        next == IF cur = "available" THEN "unavailable" ELSE "available"
    IN  /\ UserEvent
        /\ Len(writes) < MaxWrites
        /\ availability' =
              setStatusInAvailability(availability, currentUserId, dStr, next)
        /\ writes' = Append(writes, [person_id |-> currentUserId,
                                     day       |-> dStr,
                                     available |-> next = "available",
                                     cur       |-> cursor,
                                     stage     |-> "sent"])
        /\ lastEv' = [NoEv EXCEPT !.op = "click", !.p = currentUserId,
                                  !.d = dStr, !.v = (next = "available")]
        /\ UNCHANGED <<cursor, currentUserId, db, refreshes, pushes>>

\* Mutant: the status is not flipped.
onDayClick_NoFlip(dateObj) ==
    LET dStr == isoDate(dateObj)
        cur  == getStatusFromAvailability(availability, currentUserId, dStr)
        next == cur
    IN  /\ UserEvent
        /\ IF currentUserId = ""
           THEN /\ lastEv' = [NoEv EXCEPT !.op = "click", !.d = dStr]
                /\ UNCHANGED <<availability, writes>>
           ELSE /\ Len(writes) < MaxWrites
                /\ availability' =
                      setStatusInAvailability(availability, currentUserId, dStr, next)
                /\ writes' = Append(writes, [person_id |-> currentUserId,
                                             day       |-> dStr,
                                             available |-> next = "available",
                                             cur       |-> cursor,
                                             stage     |-> "sent"])
                /\ lastEv' = [NoEv EXCEPT !.op = "click", !.p = currentUserId,
                                          !.d = dStr, !.v = (next = "available")]
        /\ UNCHANGED <<cursor, currentUserId, db, refreshes, pushes>>

\* onDayClick and setStatus up to its await: the guard, the optimistic
\* update and the upsert request, which keeps the render it was issued in
\* (its refreshAvailability closes over that render's monthDays).
onDayClick(dateObj) ==
    LET dStr == isoDate(dateObj)
        cur  == getStatusFromAvailability(availability, currentUserId, dStr)
        next == IF cur = "available" THEN "unavailable" ELSE "available"
    IN  /\ UserEvent
        /\ IF currentUserId = ""
           THEN /\ lastEv' = [NoEv EXCEPT !.op = "click", !.d = dStr]
                /\ UNCHANGED <<availability, writes>>
           ELSE /\ Len(writes) < MaxWrites
                /\ availability' =
                      setStatusInAvailability(availability, currentUserId, dStr, next)
                /\ writes' = Append(writes, [person_id |-> currentUserId,
                                             day       |-> dStr,
                                             available |-> next = "available",
                                             cur       |-> cursor,
                                             stage     |-> "sent"])
                /\ lastEv' = [NoEv EXCEPT !.op = "click", !.p = currentUserId,
                                          !.d = dStr, !.v = (next = "available")]
        /\ UNCHANGED <<cursor, currentUserId, db, refreshes, pushes>>

DayClick == \E i \in ClickCells : onDayClick(monthDaysMemo[cursor][i].date)

\* The store applies an upsert; the answer reaches the client as a success
\* or, when the response is lost, as an error.
ServerUpsert(i) ==
    /\ writes[i].stage = "sent"
    /\ LET w   == writes[i]
           row == Row(w.person_id, w.day, w.available)
       IN  /\ db' = Upsert(db, row)
           /\ pushes' = Notify(pushes, row)
    /\ \E res \in {"ok", "err"} : writes' = [writes EXCEPT ![i].stage = res]
    /\ lastEv' = [NoEv EXCEPT !.op = "store"]
    /\ UNCHANGED <<cursor, currentUserId, availability, refreshes, nEvents>>

\* The upsert fails: the store is unchanged.
ServerRejectsUpsert(i) ==
    /\ writes[i].stage = "sent"
    /\ writes' = [writes EXCEPT ![i].stage = "err"]
    /\ lastEv' = [NoEv EXCEPT !.op = "store"]
    /\ UNCHANGED <<cursor, currentUserId, availability, db, refreshes,
                   pushes, nEvents>>

\* Mutant: the failure branch returns without the refresh.
setStatusReturns_NoRefreshOnError(i) ==
    /\ writes[i].stage # "sent"
    /\ LET w == writes[i]
       IN  /\ refreshes' =
                 IF w.stage = "err" THEN refreshes
                 ELSE refreshAvailability(refreshes, w.cur, "writeOk",
                                          w.person_id, w.day, w.available)
           /\ lastEv' = [NoEv EXCEPT !.op = "upsertReturned",
                                     !.kind = IF w.stage = "err" THEN "writeErr" ELSE "writeOk",
                                     !.p = w.person_id, !.d = w.day, !.v = w.available]
    /\ writes' = Remove(writes, i)
    /\ UNCHANGED <<cursor, currentUserId, availability, db, pushes, nEvents>>

\* setStatus after its await: on error log and refresh, else refresh.
setStatusReturns(i) ==
    /\ writes[i].stage # "sent"
    /\ Len(refreshes) < MaxRefreshes
    /\ LET w    == writes[i]
           kind == IF w.stage = "err" THEN "writeErr" ELSE "writeOk"
       IN  /\ refreshes' = refreshAvailability(refreshes, w.cur, kind,
                                               w.person_id, w.day, w.available)
           /\ lastEv' = [NoEv EXCEPT !.op = "upsertReturned", !.kind = kind,
                                     !.p = w.person_id, !.d = w.day, !.v = w.available]
    /\ writes' = Remove(writes, i)
    /\ UNCHANGED <<cursor, currentUserId, availability, db, pushes, nEvents>>

\* The store answers a range query with the rows it holds at that moment.
ServerQuery(i) ==
    /\ refreshes[i].stage = "sent"
    /\ refreshes' = [refreshes EXCEPT
                        ![i].stage = "ok",
                        ![i].data = RangeQuery(db, refreshes[i].startISO,
                                                   refreshes[i].endISO)]
    /\ lastEv' = [NoEv EXCEPT !.op = "store"]
    /\ UNCHANGED <<cursor, currentUserId, availability, db, writes,
                   pushes, nEvents>>

ServerQueryFails(i) ==
    /\ refreshes[i].stage = "sent"
    /\ refreshes' = [refreshes EXCEPT ![i].stage = "err"]
    /\ lastEv' = [NoEv EXCEPT !.op = "store"]
    /\ UNCHANGED <<cursor, currentUserId, availability, db, writes,
                   pushes, nEvents>>

\* The requests still in flight once request i has been applied: those
\* issued before it are now overtaken (history only).
AfterApplied(rs, i) ==
    LET rest == Remove(rs, i)
    IN  [j \in 1..Len(rest) |->
            IF j < i THEN [rest[j] EXCEPT !.overtaken = TRUE] ELSE rest[j]]

RefreshEv(r, op) ==
    [NoEv EXCEPT !.op = op, !.kind = r.kind, !.p = r.p, !.d = r.d, !.v = r.v,
                 !.rows = r.data, !.startISO = r.startISO, !.endISO = r.endISO,
                 !.stale = r.overtaken, !.wasFresh = (availability = FreshView)]

\* Mutant: the rows are merged into the previous mapping.
refreshReturns_Merges(i) ==
    /\ refreshes[i].stage # "sent"
    /\ LET r == refreshes[i]
           RECURSIVE Merge(_, _)
           Merge(a, rows) ==
               IF rows = {} THEN a
               ELSE LET row == CHOOSE x \in rows : TRUE
                    IN  Merge(setStatusInAvailability(a, row.person_id, row.day,
                                 IF row.available THEN "available" ELSE "unavailable"),
                              rows \ {row})
       IN  IF r.stage = "err"
           THEN /\ availability' = availability
                /\ refreshes' = Remove(refreshes, i)
                /\ lastEv' = RefreshEv(r, "refreshFailed")
           ELSE IF ~mounted
           THEN /\ availability' = availability
                /\ refreshes' = Remove(refreshes, i)
                /\ lastEv' = RefreshEv(r, "refreshIgnored")
           ELSE /\ availability' = Merge(availability, r.data)
                /\ refreshes' = AfterApplied(refreshes, i)
                /\ lastEv' = RefreshEv(r, "refreshApplied")
    /\ UNCHANGED <<cursor, currentUserId, db, writes, pushes, nEvents>>

\* Mutant: a response that a later request has overtaken is dropped.
refreshReturns_DropsStale(i) ==
    /\ refreshes[i].stage # "sent"
    /\ LET r == refreshes[i]
       IN  IF r.stage = "err"
           THEN /\ availability' = availability
                /\ refreshes' = Remove(refreshes, i)
                /\ lastEv' = RefreshEv(r, "refreshFailed")
           ELSE IF ~mounted
           THEN /\ availability' = availability
                /\ refreshes' = Remove(refreshes, i)
                /\ lastEv' = RefreshEv(r, "refreshIgnored")
           ELSE /\ availability' = IF r.overtaken THEN availability
                                   ELSE RowsToAvailability(r.data)
                /\ refreshes' = AfterApplied(refreshes, i)
                /\ lastEv' = RefreshEv(r, "refreshApplied")
    /\ UNCHANGED <<cursor, currentUserId, db, writes, pushes, nEvents>>

\* refreshAvailability after its await: on error log and return, else
\* build `next` from the rows and setAvailability(next), which does nothing
\* once the component is torn down.
refreshReturns(i) ==
    /\ refreshes[i].stage # "sent"
    /\ LET r == refreshes[i]
       IN  IF r.stage = "err"
           THEN /\ availability' = availability
                /\ refreshes' = Remove(refreshes, i)
                /\ lastEv' = RefreshEv(r, "refreshFailed")
           ELSE IF ~mounted
           THEN /\ availability' = availability
                /\ refreshes' = Remove(refreshes, i)
                /\ lastEv' = RefreshEv(r, "refreshIgnored")
           ELSE /\ availability' = RowsToAvailability(r.data)
                /\ refreshes' = AfterApplied(refreshes, i)
                /\ lastEv' = RefreshEv(r, "refreshApplied")
    /\ UNCHANGED <<cursor, currentUserId, db, writes, pushes, nEvents>>

\* Mutant: the handler also starts a bulk refresh.
onPostgresChange_AlsoRefreshes(row) ==
    /\ channels > 0
    /\ row \in pushes
    /\ pushes' = pushes \ {row}
    /\ Len(refreshes) < MaxRefreshes
    /\ IF row.person_id = NoPerson \/ row.day = NoDay
       THEN UNCHANGED <<availability, refreshes>>
       ELSE /\ availability' = setStatusInAvailability(availability, row.person_id, row.day,
                                  IF row.available THEN "available" ELSE "unavailable")
            /\ refreshes' = refreshAvailability(refreshes, cursor, "effect",
                                                NoPerson, NoDay, FALSE)
    /\ lastEv' = [NoEv EXCEPT !.op = "push", !.p = row.person_id, !.d = row.day,
                              !.v = row.available]
    /\ UNCHANGED <<cursor, currentUserId, db, writes, nEvents>>

\* The postgres_changes callback on payload.new.
onPostgresChange(row) ==
    /\ channels > 0
    /\ row \in pushes
    /\ pushes' = pushes \ {row}
    /\ IF row.person_id = NoPerson \/ row.day = NoDay
       THEN availability' = availability
       ELSE LET nextStatus == IF row.available THEN "available" ELSE "unavailable"
            IN  availability' = setStatusInAvailability(availability, row.person_id,
                                                        row.day, nextStatus)
    /\ lastEv' = [NoEv EXCEPT !.op = "push", !.p = row.person_id, !.d = row.day,
                              !.v = row.available]
    /\ UNCHANGED <<cursor, currentUserId, db, writes, refreshes, nEvents>>

\* A 10 s interval fires: its callback calls the refreshAvailability of the
\* render that set it.
TimerTick(t) ==
    /\ Event
    /\ Len(refreshes) < MaxRefreshes
    /\ refreshes' = refreshAvailability(refreshes, timers[t], "tick", NoPerson, NoDay, FALSE)
    /\ lastEv' = [NoEv EXCEPT !.op = "tick"]
    /\ UNCHANGED <<cursor, currentUserId, availability, db, writes, pushes>>

\* Mutant: the interval effect runs on mount only, so the interval keeps
\* the refreshAvailability of the first render.
SetCursor_KeepsTimer(c, op) ==
    /\ UserEvent
    /\ c \in Cursors
    /\ Len(refreshes) < MaxRefreshes
    /\ cursor' = c
    /\ refreshes' = refreshAvailability(refreshes, c, "effect", NoPerson, NoDay, FALSE)
    /\ timers' = timers
    /\ lastEv' = [NoEv EXCEPT !.op = op]
    /\ UNCHANGED <<currentUserId, availability, db, writes, pushes>>
    /\ UNCHANGED <<uiVars, mounted, channels, nSubscribed>>

\* Mutant: the interval effect has no cleanup, so the old interval lives on.
SetCursor_LeaksTimer(c, op) ==
    /\ UserEvent
    /\ c \in Cursors
    /\ Len(refreshes) < MaxRefreshes
    /\ cursor' = c
    /\ refreshes' = refreshAvailability(refreshes, c, "effect", NoPerson, NoDay, FALSE)
    /\ timers' = IF Len(timers) < 2 THEN Append(timers, c) ELSE timers
    /\ lastEv' = [NoEv EXCEPT !.op = op]
    /\ UNCHANGED <<currentUserId, availability, db, writes, pushes>>
    /\ UNCHANGED <<uiVars, mounted, channels, nSubscribed>>

\* setCursor(c) and the re-render: monthDays and refreshAvailability are
\* new, so the refresh effect calls the new refreshAvailability and the
\* interval effect clears its interval and sets one on the new callback.
\* The subscription effect has no dependencies and does not run again.
SetCursor(c, op) ==
    /\ UserEvent
    /\ c \in Cursors
    /\ Len(refreshes) < MaxRefreshes
    /\ cursor' = c
    /\ refreshes' = refreshAvailability(refreshes, c, "effect", NoPerson, NoDay, FALSE)
    /\ timers' = <<c>>
    /\ lastEv' = [NoEv EXCEPT !.op = op]
    /\ UNCHANGED <<currentUserId, availability, db, writes, pushes>>
    /\ UNCHANGED <<uiVars, mounted, channels, nSubscribed>>

prevMonth ==
    SetCursor(startOfMonth(NewDate(getFullYear(cursor), getMonth(cursor) - 1, 1)), "prevMonth")

nextMonth ==
    SetCursor(startOfMonth(NewDate(getFullYear(cursor), getMonth(cursor) + 1, 1)), "nextMonth")

goToday == SetCursor(startOfMonth(today), "goToday")

\* The load effect found a saved cursor: its setCursor(startOfMonth(d))
\* re-renders right after the mount commit, before anything else happens.
LoadCursor(c) ==
    /\ lastEv = NoEv
    /\ SetCursor(c, "loadCursor")

\* Another client writes a row, or a row is deleted out of band.
RemoteWrite(p, d, v) ==
    /\ Event
    /\ db' = Upsert(db, Row(p, d, v))
    /\ pushes' = Notify(pushes, Row(p, d, v))
    /\ lastEv' = [NoEv EXCEPT !.op = "remote"]
    /\ UNCHANGED <<cursor, currentUserId, availability, writes, refreshes>>

RemoteDelete(p, d) ==
    /\ Event
    /\ \E r \in db : r.person_id = p /\ r.day = d
    /\ db' = DeleteRow(db, p, d)
    /\ pushes' = Notify(pushes, EmptyPayload)
    /\ lastEv' = [NoEv EXCEPT !.op = "remote"]
    /\ UNCHANGED <<cursor, currentUserId, availability, writes, refreshes>>

\* Mutant: only the days of the visible month are scanned.
idsWithUnavailable_InMonthOnly(ppl, cells, avail) ==
    {id \in Ids(ppl) :
        \E i \in 1..Len(cells) :
            /\ cells[i].inMonth
            /\ getStatusFromAvailability(avail, id, isoDate(cells[i].date)) = "unavailable"}

\* The loops of the Unavailable button: the people with an unavailable
\* day among the cells.
idsWithUnavailable(ppl, cells, avail) ==
    {id \in Ids(ppl) :
        \E i \in 1..Len(cells) :
            getStatusFromAvailability(avail, id, isoDate(cells[i].date)) = "unavailable"}

\* The Show buttons: All, Unavailable, None.
ShowAll ==
    /\ UserEvent
    /\ showMode' = "all"
    /\ selectedIds' = Ids(people)
    /\ lastEv' = [NoEv EXCEPT !.op = "showAll"]
    /\ UNCHANGED <<dataVars, people, lifeVars>>

ShowUnavailable ==
    /\ UserEvent
    /\ showMode' = "onlyUnavailable"
    /\ selectedIds' = idsWithUnavailable(people, monthDaysMemo[cursor], availability)
    /\ lastEv' = [NoEv EXCEPT !.op = "showUnavailable"]
    /\ UNCHANGED <<dataVars, people, lifeVars>>

ShowNone ==
    /\ UserEvent
    /\ showMode' = "none"
    /\ selectedIds' = {}
    /\ lastEv' = [NoEv EXCEPT !.op = "showNone"]
    /\ UNCHANGED <<dataVars, people, lifeVars>>

\* The checkbox of a person of the rail.
toggleSelect(personId) ==
    /\ UserEvent
    /\ selectedIds' = IF personId \in selectedIds
                      THEN selectedIds \ {personId}
                      ELSE selectedIds \cup {personId}
    /\ lastEv' = [NoEv EXCEPT !.op = "toggleSelect", !.p = personId]
    /\ UNCHANGED <<dataVars, people, showMode, lifeVars>>

\* Teardown: the cleanups of the subscription effect (removeChannel) and
\* of the interval effect (clearInterval) run.
Unmount ==
    /\ UserEvent
    /\ mounted' = FALSE
    /\ channels' = 0
    /\ timers' = <<>>
    /\ lastEv' = [NoEv EXCEPT !.op = "unmount"]
    /\ UNCHANGED <<dataVars, uiVars, nSubscribed>>

Next ==
    \/ (\E u \in Persons \cup {""} : SelectUser(u)) /\ UNCHANGED nonDataVars
    \/ DayClick /\ UNCHANGED nonDataVars
    \/ (\E i \in 1..Len(writes) : ServerUpsert(i)) /\ UNCHANGED nonDataVars
    \/ (\E i \in 1..Len(writes) : ServerRejectsUpsert(i)) /\ UNCHANGED nonDataVars
    \/ (\E i \in 1..Len(writes) : setStatusReturns(i)) /\ UNCHANGED nonDataVars
    \/ (\E i \in 1..Len(refreshes) : ServerQuery(i)) /\ UNCHANGED nonDataVars
    \/ (\E i \in 1..Len(refreshes) : ServerQueryFails(i)) /\ UNCHANGED nonDataVars
    \/ (\E i \in 1..Len(refreshes) : refreshReturns(i)) /\ UNCHANGED nonDataVars
    \/ (\E row \in pushes : onPostgresChange(row)) /\ UNCHANGED nonDataVars
    \/ (\E t \in 1..Len(timers) : TimerTick(t)) /\ UNCHANGED nonDataVars
    \/ prevMonth /\ UNCHANGED nonSyncVars
    \/ nextMonth /\ UNCHANGED nonSyncVars
    \/ goToday /\ UNCHANGED nonSyncVars
    \/ (\E c \in Cursors : LoadCursor(c)) /\ UNCHANGED nonSyncVars
    \/ ShowAll /\ UNCHANGED nonSyncVars
    \/ ShowUnavailable /\ UNCHANGED nonSyncVars
    \/ ShowNone /\ UNCHANGED nonSyncVars
    \/ (\E id \in Ids(people) : toggleSelect(id)) /\ UNCHANGED nonSyncVars
    \/ Unmount /\ UNCHANGED nonSyncVars
    \/ (\E p \in Persons, d \in DbDays, v \in BOOLEAN : RemoteWrite(p, d, v))
          /\ UNCHANGED nonDataVars
    \/ (\E p \in Persons, d \in DbDays : RemoteDelete(p, d)) /\ UNCHANGED nonDataVars

Spec == Init /\ [][Next]_vars

(* -------------------- Claims on the sync controller -------------------- *)

\* Every (person, day) pair a mapping, a store or a message of the run can hold.
AllPersons == Persons \cup {NoPerson}
AllDays == DbDays \cup {NoDay}

HasEntry(avail, p, d) == p \in DOMAIN avail /\ d \in DOMAIN avail[p]

\* The status the remote store holds for (p, d): a missing row is available.
StoreStatus(p, d) ==
    IF \E r \in db : r.person_id = p /\ r.day = d /\ r.available = FALSE
    THEN "unavailable" ELSE "available"

\* C1: when the upsert of a local write returns, with success or with an
\* error, the same step issues a bulk refresh; no write leaves the writes
\* in flight without a refresh request having been added for it.
C1_RefreshAfterWrite ==
    [][Len(writes') < Len(writes) =>
          \E i \in 1..Len(writes) :
             /\ writes[i].stage \in {"ok", "err"}
             /\ writes' = Remove(writes, i)
             /\ Len(refreshes') = Len(refreshes) + 1
             /\ SubSeq(refreshes', 1, Len(refreshes)) = refreshes
             /\ LET r == refreshes'[Len(refreshes')]
                IN  /\ r.stage = "sent"
                    /\ r.kind = (IF writes[i].stage = "err" THEN "writeErr" ELSE "writeOk")
                    /\ r.p = writes[i].person_id /\ r.d = writes[i].day]_vars

\* A failed upsert has returned and its refresh is the newest request.
C1_Witness ==
    /\ lastEv.op = "upsertReturned" /\ lastEv.kind = "writeErr"
    /\ Len(writes) = 0
    /\ Len(refreshes) > 0
    /\ refreshes[Len(refreshes)].kind = "writeErr"
    /\ refreshes[Len(refreshes)].stage = "sent"

\* C2: when a bulk refresh completes successfully, the in-memory mapping
\* has an entry for (p, d) exactly when the query returned a row for it,
\* and the entry carries the row's value: an overwrite, not a merge.
C2_RefreshOverwrites ==
    lastEv.op = "refreshApplied" =>
        \A p \in AllPersons, d \in AllDays :
            /\ HasEntry(availability, p, d)
                  <=> (\E r \in lastEv.rows : r.person_id = p /\ r.day = d)
            /\ \A r \in lastEv.rows :
                  (r.person_id = p /\ r.day = d) => availability[p][d] = r.available

\* A refresh was applied while a local write was in flight, and the
\* optimistic entry of that write, not among the rows, is gone.
C2_Witness ==
    /\ lastEv.op = "refreshApplied"
    /\ Len(writes) = 1
    /\ ~HasEntry(availability, writes[1].person_id, writes[1].day)
    /\ lastEv.rows # {}

\* C3: when the upsert of a local write on (p, d) failed and the refresh it
\* triggered completes successfully with the store unchanged since its
\* query, the in-memory status of (p, d) is the store's, not the guess.
C3_FailedWriteResyncs ==
    (/\ lastEv.op = "refreshApplied"
     /\ lastEv.kind = "writeErr"
     /\ lastEv.rows = RangeQuery(db, lastEv.startISO, lastEv.endISO))
       => getStatusFromAvailability(availability, lastEv.p, lastEv.d)
             = StoreStatus(lastEv.p, lastEv.d)

\* The guess was unavailable and the store, which holds no unavailable row
\* for the pair, says available.
C3_Witness ==
    /\ lastEv.op = "refreshApplied"
    /\ lastEv.kind = "writeErr"
    /\ lastEv.rows = RangeQuery(db, lastEv.startISO, lastEv.endISO)
    /\ lastEv.v = FALSE
    /\ StoreStatus(lastEv.p, lastEv.d) = "available"
    /\ getStatusFromAvailability(availability, lastEv.p, lastEv.d) = "available"

\* C4: overlapping refreshes are not synchronised: responses are applied
\* in completion order, so a response that arrives after the response of a
\* later-issued request still replaces the in-memory mapping by its rows.
C4_CompletionOrder ==
    (lastEv.op = "refreshApplied" /\ lastEv.stale)
        => availability = RowsToAvailability(lastEv.rows)

\* A refresh issued earlier completed after a later one: the mapping showed
\* the store's current rows before, and shows older rows now.
C4_Witness ==
    /\ lastEv.op = "refreshApplied" /\ lastEv.stale
    /\ lastEv.wasFresh
    /\ availability # FreshView
    /\ lastEv.rows # RangeQuery(db, lastEv.startISO, lastEv.endISO)

\* C5: a push notification whose row carries a person and a day sets cell
\* (person, day) to the row's value and changes no other cell; a row
\* lacking either changes nothing; no bulk refresh is issued either way.
C5_PushPatchesOneCell ==
    [][lastEv'.op = "push" =>
          /\ refreshes' = refreshes /\ writes' = writes
          /\ IF lastEv'.p = NoPerson \/ lastEv'.d = NoDay
             THEN availability' = availability
             ELSE /\ HasEntry(availability', lastEv'.p, lastEv'.d)
                  /\ availability'[lastEv'.p][lastEv'.d] = lastEv'.v
                  /\ \A p \in AllPersons, d \in AllDays :
                        <<p, d>> # <<lastEv'.p, lastEv'.d>> =>
                           /\ HasEntry(availability', p, d) <=> HasEntry(availability, p, d)
                           /\ HasEntry(availability, p, d) =>
                                 availability'[p][d] = availability[p][d]]_vars

\* A notified row for p1 was patched in while the mapping holds entries of
\* p2 and a request is in flight.
C5_Witness ==
    /\ lastEv.op = "push" /\ lastEv.p = "p1"
    /\ HasEntry(availability, "p1", lastEv.d)
    /\ availability["p1"][lastEv.d] = lastEv.v
    /\ "p2" \in DOMAIN availability
    /\ \E d \in DbDays : d # lastEv.d /\ HasEntry(availability, "p2", d)

\* A notification without person and day was delivered.
C5_WitnessEmpty == lastEv.op = "push" /\ lastEv.p = NoPerson /\ availability # EmptyObj

\* C6: a day click while no current user is chosen changes nothing: the
\* mapping, the upserts and the refreshes in flight and the store stay.
C6_ClickWithoutUserIsNoOp ==
    [][(lastEv'.op = "click" /\ currentUserId = "") =>
          /\ availability' = availability
          /\ writes' = writes
          /\ refreshes' = refreshes
          /\ db' = db /\ pushes' = pushes
          /\ currentUserId' = currentUserId /\ cursor' = cursor]_vars

\* A click happened with no user chosen, on a grid that shows entries.
C6_Witness ==
    /\ lastEv.op = "click" /\ lastEv.p = ""
    /\ currentUserId = ""
    /\ availability # EmptyObj
    /\ Len(writes) = 0

\* C7: a day click on d by current user u flips u's status for d, changes
\* no other cell, and issues exactly one upsert, keyed by (u, d) and
\* carrying the new status.
C7_ClickTogglesOwnCell ==
    [][(lastEv'.op = "click" /\ currentUserId # "") =>
          LET u == currentUserId
              d == lastEv'.d
          IN  /\ getStatusFromAvailability(availability', u, d)
                    # getStatusFromAvailability(availability, u, d)
              /\ \A p \in AllPersons, e \in AllDays :
                    <<p, e>> # <<u, d>> =>
                       /\ HasEntry(availability', p, e) <=> HasEntry(availability, p, e)
                       /\ HasEntry(availability, p, e) =>
                             availability'[p][e] = availability[p][e]
              /\ Len(writes') = Len(writes) + 1
              /\ SubSeq(writes', 1, Len(writes)) = writes
              /\ LET w == writes'[Len(writes')]
                 IN  /\ w.person_id = u /\ w.day = d
                     /\ w.available =
                           (getStatusFromAvailability(availability', u, d) = "available")
              /\ currentUserId' = u]_vars

\* p2, unavailable on the clicked day, clicked it: now available, with
\* the upsert for (p2, day, true) in flight and p2's other day untouched.
C7_Witness ==
    /\ lastEv.op = "click" /\ lastEv.p = "p2" /\ lastEv.v = TRUE
    /\ currentUserId = "p2"
    /\ Len(writes) = 1 /\ writes[1].person_id = "p2" /\ writes[1].available = TRUE
    /\ getStatusFromAvailability(availability, "p2", lastEv.d) = "available"
    /\ \E d \in DbDays : getStatusFromAvailability(availability, "p2", d) = "unavailable"

\* C14: switching the show mode recomputes the selection from the state at
\* the switch: All selects every known person, None selects nobody, and
\* Unavailable selects exactly the known people who hold an unavailable
\* entry on a day between the first and the last of the 42 visible cells.
C14_ShowModeSelects ==
    /\ lastEv.op = "showAll" => (showMode = "all" /\ selectedIds = Ids(people))
    /\ lastEv.op = "showNone" => (showMode = "none" /\ selectedIds = {})
    /\ lastEv.op = "showUnavailable" =>
          /\ showMode = "onlyUnavailable"
          /\ selectedIds =
                {p \in Ids(people) :
                    \E d \in AllDays :
                        /\ d >= isoDate(monthDaysMemo[cursor][1].date)
                        /\ d <= isoDate(monthDaysMemo[cursor][42].date)
                        /\ HasEntry(availability, p, d)
                        /\ availability[p][d] = FALSE}

\* Unavailable was pressed while p2 had an unavailable day in the window
\* and p1 had none: the selection is exactly {p2}.
C14_Witness ==
    /\ lastEv.op = "showUnavailable"
    /\ Ids(people) = {"p1", "p2"}
    /\ \E d \in DbDays : getStatusFromAvailability(availability, "p2", d) = "unavailable"
    /\ \A d \in DbDays : getStatusFromAvailability(availability, "p1", d) = "available"
    /\ selectedIds = {"p2"}

\* The range the refresh of a render with cursor `c` asks for: from the
\* first to the last of its cells.
WindowOf(c) ==
    [startISO |-> isoDate(monthDaysMemo[c][1].date),
     endISO   |-> isoDate(monthDaysMemo[c][Len(monthDaysMemo[c])].date)]

Newest(rs) == rs[Len(rs)]
RequestWindow(r) == [startISO |-> r.startISO, endISO |-> r.endISO]

\* C17: whenever the visible month changes (prevMonth, nextMonth, goToday
\* or a loaded cursor) a bulk refresh is issued whose range is bounded by
\* the first and the last of the 42 cells of the new month; every later
\* timer tick refreshes that same window (the one interval that runs is
\* the one of the current month); and a refresh is issued on mount.
C17_RefreshFollowsMonth ==
    /\ lastEv.op \in {"prevMonth", "nextMonth", "goToday", "loadCursor"} =>
          /\ Len(refreshes) > 0
          /\ Newest(refreshes).kind = "effect"
          /\ Newest(refreshes).stage = "sent"
          /\ RequestWindow(Newest(refreshes)) = WindowOf(cursor)
          /\ Len(monthDaysMemo[cursor]) = GridCells
    /\ lastEv.op = "tick" =>
          /\ Len(refreshes) > 0
          /\ Newest(refreshes).kind = "tick"
          /\ RequestWindow(Newest(refreshes)) = WindowOf(cursor)
    /\ mounted => timers = <<cursor>>
    /\ lastEv = NoEv =>
          /\ Len(refreshes) = 1
          /\ RequestWindow(refreshes[1]) = WindowOf(startOfMonth(today))

\* A tick has fired after the month was changed away from today's.
C17_Witness ==
    /\ lastEv.op = "tick"
    /\ cursor # startOfMonth(today)
    /\ Len(refreshes) > 0
    /\ RequestWindow(Newest(refreshes)) # WindowOf(startOfMonth(today))

\* The month has just been changed to a loaded cursor.
C17_WitnessLoaded ==
    /\ lastEv.op = "loadCursor"
    /\ cursor # startOfMonth(today)
    /\ Len(refreshes) = 2

\* C19: the push subscription is created once per component lifetime;
\* while the component is mounted exactly one subscription and exactly one
\* interval timer are active, also across month changes; after teardown
\* none is active, so no timer tick issues a refresh and no push callback
\* patches the state.
C19_OneSubscriptionOneTimer ==
    /\ nSubscribed = 1
    /\ mounted => channels = 1 /\ Len(timers) = 1
    /\ ~mounted =>
          /\ channels = 0
          /\ timers = <<>>
          /\ lastEv.op \notin {"tick", "push"}
          /\ ~ENABLED (\E row \in pushes : onPostgresChange(row))
          /\ ~ENABLED (\E t \in 1..Len(timers) : TimerTick(t))

\* The component is torn down while a notification is still on its way
\* and a request is still in flight.
C19_Witness ==
    /\ ~mounted
    /\ pushes # {}
    /\ Len(refreshes) > 0

\* The month has been changed and the component is still mounted.
C19_WitnessMonthChange ==
    /\ mounted
    /\ lastEv.op \in {"prevMonth", "nextMonth"}
    /\ timers = <<cursor>>

\* C22: every refresh result applied to the availability in memory was
\* queried for the 42-day window of the month visible when it is applied;
\* in particular the refresh that follows a local write queries the month
\* visible then, even if the month was changed while the upsert was in
\* flight; a refresh issued for an earlier month never replaces the
\* availability shown for the current month.
C22_AppliedForVisibleMonth ==
    /\ lastEv.op = "refreshApplied" =>
          [startISO |-> lastEv.startISO, endISO |-> lastEv.endISO] = WindowOf(cursor)
    /\ lastEv.op = "upsertReturned" =>
          RequestWindow(Newest(refreshes)) = WindowOf(cursor)

\* The response to a query for another month has just replaced the
\* availability of the visible month.
C22_Witness ==
    /\ mounted
    /\ lastEv.op = "refreshApplied"
    /\ lastEv.startISO # WindowOf(cursor).startISO
    /\ availability = RowsToAvailability(lastEv.rows)

\* The refresh after an upsert asks for the month of the click, not for
\* the month visible now (three events: select, click, month change).
C22_WitnessWrite ==
    /\ lastEv.op = "upsertReturned"
    /\ RequestWindow(Newest(refreshes)) # WindowOf(cursor)

\* The selection the Unavailable button would compute in this state.
UnavailableNow == idsWithUnavailable(people, monthDaysMemo[cursor], availability)

\* C24: while the show mode is "onlyUnavailable" the selection stays equal
\* to the set of known people with at least one unavailable day in the
\* visible 42-day window, after any later day click, push notification,
\* bulk refresh or month change: such a step, taken where the two are
\* equal, leaves them equal.
C24_SelectionStaysInSync ==
    [][(/\ showMode = "onlyUnavailable"
        /\ selectedIds = UnavailableNow
        /\ lastEv'.op \in {"click", "push", "refreshApplied",
                           "prevMonth", "nextMonth", "goToday"})
       => (selectedIds = UnavailableNow)']_vars

\* The mode is "onlyUnavailable" and a refresh has just brought a person
\* with an unavailable day who is not selected.
C24_Witness ==
    /\ showMode = "onlyUnavailable"
    /\ lastEv.op = "refreshApplied"
    /\ UnavailableNow \ selectedIds # {}

(* ------------------- The sync controller left running ------------------ *)

\* The interval goes on firing every 10 s for as long as the component is
\* mounted: a tick that the bound on the other events does not limit.
IntervalFires(t) ==
    /\ Len(refreshes) < MaxRefreshes
    /\ refreshes' = refreshAvailability(refreshes, timers[t], "tick", NoPerson, NoDay, FALSE)
    /\ lastEv' = [NoEv EXCEPT !.op = "tick"]
    /\ UNCHANGED <<cursor, currentUserId, availability, db, writes, pushes, nEvents>>

Ticks == (\E t \in 1..Len(timers) : IntervalFires(t)) /\ UNCHANGED nonDataVars
Answers == (\E i \in 1..Len(refreshes) : ServerQuery(i)) /\ UNCHANGED nonDataVars
Returns == (\E i \in 1..Len(refreshes) : refreshReturns(i)) /\ UNCHANGED nonDataVars

\* The steps that can put a response out of order or make it stale: month
\* changes, changes of the store and their notifications, failed queries;
\* and the teardown.
NextLive ==
    \/ Ticks
    \/ Answers
    \/ Returns
    \/ (\E i \in 1..Len(refreshes) : ServerQueryFails(i)) /\ UNCHANGED nonDataVars
    \/ (\E row \in pushes : onPostgresChange(row)) /\ UNCHANGED nonDataVars
    \/ prevMonth /\ UNCHANGED nonSyncVars
    \/ nextMonth /\ UNCHANGED nonSyncVars
    \/ goToday /\ UNCHANGED nonSyncVars
    \/ Unmount /\ UNCHANGED nonSyncVars
    \/ (\E p \in Persons, d \in DbDays, v \in BOOLEAN : RemoteWrite(p, d, v))
          /\ UNCHANGED nonDataVars
    \/ (\E p \in Persons, d \in DbDays : RemoteDelete(p, d)) /\ UNCHANGED nonDataVars

\* Ticks is enabled exactly when an interval is alive and a request can be
\* issued; Returns exactly when a response has arrived.
CanTick == Len(timers) > 0 /\ Len(refreshes) < MaxRefreshes
Arrived == \E i \in 1..Len(refreshes) : refreshes[i].stage # "sent"

\* The interval keeps firing and a response that has arrived is handed to
\* its continuation (weak fairness of Ticks and of Returns, with their
\* enabling conditions written out); the store answers a query again and
\* again (strong fairness: single queries may fail).
SpecLive ==
    /\ Init
    /\ [][NextLive]_vars
    /\ ([]<>~CanTick \/ []<><<Ticks>>_vars)
    /\ ([]<>~Arrived \/ []<><<Returns>>_vars)
    /\ SF_vars(Answers)

\* C18: stale data applied by an out-of-order refresh is corrected: once
\* the store and the visible month have stopped changing, with queries
\* that succeed, fair ticks and fair delivery of the responses, the
\* availability in memory eventually equals the store's rows of the
\* visible window and stays equal (for as long as the component is
\* mounted).
C18_EventuallyFresh == <>[](mounted => availability = FreshView)

\* A response that a later request had overtaken has just been applied and
\* the view is stale.
C18_Witness ==
    /\ mounted
    /\ lastEv.op = "refreshApplied"
    /\ lastEv.stale
    /\ availability # FreshView
    /\ nEvents = MaxEvents

(* ------------------------ Local preference store ----------------------- *)

\* Reloads of the page, and user changes of a preference, in one run.
MaxSessions == 1
MaxPrefEvents == 1

\* The fields of the stored object.
PrefFields == {"selected", "currentUserId", "cursor"}
LegacyFields == {"availability", "people"}

\* !v and Array.isArray(v) of a JS value.
Falsy(v) ==
    \/ v.t = "undefined"
    \/ v.t = "string" /\ v.s = ""
    \/ v.t = "number" /\ v.n = 0
IsArray(v) == v.t = "array"

\* new Set(array) keeps the first occurrence of each element, in order;
\* Array.from(set) lists the elements in that order.
RECURSIVE NewSet(_)
NewSet(q) ==
    IF q = <<>> THEN <<>>
    ELSE LET init == NewSet(SubSeq(q, 1, Len(q) - 1))
             x    == q[Len(q)]
         IN  IF \E k \in 1..Len(init) : init[k] = x THEN init ELSE Append(init, x)
ArrayFrom(set) == set
Elements(set) == {set[k] : k \in 1..Len(set)}

\* cursor.toISOString(): the UTC instant (in minutes) of the local midnight
\* of a day, for a zone `zone` minutes east of UTC.
toISOString(D, zone) == JDate(D * 1440 - zone)

\* Mutant: the parsed instant is read with the UTC getters.
DateFromISO_UTC(v, zone) ==
    IF v.t = "string" /\ v.s = "date"
    THEN [valid |-> TRUE, day |-> v.n \div 1440]
    ELSE [valid |-> FALSE, day |-> 0]

\* new Date(saved.cursor) and its local calendar day; an invalid date for a
\* string that is not a date.
DateFromISO(v, zone) ==
    IF v.t = "string" /\ v.s = "date"
    THEN [valid |-> TRUE, day |-> (v.n + zone) \div 1440]
    ELSE [valid |-> FALSE, day |-> 0]

\* saved.<name>: undefined when the parsed value has no such property.
Field(saved, name) ==
    IF saved.kind = "object" /\ name \in DOMAIN saved.fields
    THEN saved.fields[name] ELSE Undefined

\* loadState(): null when getItem or JSON.parse throws or nothing is stored.
loadState(mode, stored) ==
    IF mode = "disabled" \/ stored.kind \in {"absent", "garbage"}
    THEN NullBlob
    ELSE stored

\* saveState(state): the stored value afterwards; a throwing setItem is
\* ignored.
saveState(mode, stored, doc) ==
    IF mode = "ok" THEN doc ELSE stored

\* The object the persist effect saves.
PrefDoc(sel, usr, cur, zone) ==
    [kind   |-> "object",
     fields |-> [k \in PrefFields |->
                    CASE k = "selected"      -> JArr(ArrayFrom(sel))
                      [] k = "currentUserId" -> usr
                      [] k = "cursor"        -> toISOString(cur, zone)]]

\* Mutant: only the availability field is removed.
StripLegacy_KeepsPeople(saved) ==
    [kind   |-> "object",
     fields |-> [k \in (DOMAIN saved.fields) \ {"availability"} |-> saved.fields[k]]]

\* const { availability, people, ...rest } = saved.
StripLegacy(saved) ==
    [kind   |-> "object",
     fields |-> [k \in (DOMAIN saved.fields) \ LegacyFields |-> saved.fields[k]]]

\* The state the load effect leaves: each setter it calls, on the defaults.
LoadedSelected(saved, dflt) ==
    IF IsArray(Field(saved, "selected"))
    THEN NewSet(Field(saved, "selected").q) ELSE dflt

LoadedUser(saved, dflt) ==
    IF Falsy(Field(saved, "currentUserId"))
    THEN dflt ELSE Field(saved, "currentUserId")

LoadedCursor(saved, dflt, zone) ==
    IF Falsy(Field(saved, "cursor")) THEN dflt
    ELSE LET d == DateFromISO(Field(saved, "cursor"), zone)
         IN  IF d.valid THEN startOfMonth(d.day) ELSE dflt

\* What the key may hold when the page is first opened.
SelectedInputs ==
    {Undefined, JArr(<<>>), JArr(<<JStr("p1")>>), JArr(<<JNum(5)>>), JStr("p1")}
UserInputs == {Undefined, JStr("p1"), JStr("ghost"), JNum(5)}
CursorInputs(zone) ==
    {Undefined, toISOString(NewDate(2026, 2, 1), zone), JStr("garbage")}
ExtraInputs == {{}, LegacyFields, LegacyFields \cup {"theme"}}

StoredObject(sel, usr, cur, extra) ==
    [kind   |-> "object",
     fields |-> [k \in {n \in PrefFields :
                          \/ n = "selected" /\ sel # Undefined
                          \/ n = "currentUserId" /\ usr # Undefined
                          \/ n = "cursor" /\ cur # Undefined} \cup extra |->
                    CASE k = "selected"      -> sel
                      [] k = "currentUserId" -> usr
                      [] k = "cursor"        -> cur
                      [] OTHER               -> JObj]]

BlobInputs(zone) ==
    {Blob("absent"), Blob("garbage"), Blob("falsy"), Blob("primitive")}
    \cup {StoredObject(sel, usr, cur, extra) :
             sel \in SelectedInputs, usr \in UserInputs,
             cur \in CursorInputs(zone), extra \in ExtraInputs}

\* The storage works, throws on every call, or throws on writes only.
StorageModes == {"ok", "disabled", "full"}
\* Minutes east of UTC of the browser's time zone.
TimeZones == {-300, 60}

\* The answers of the people query: an error, no rows, or the roster.
PeopleAnswers ==
    {[error |-> TRUE, data |-> <<>>],
     [error |-> FALSE, data |-> <<>>],
     [error |-> FALSE, data |-> Roster]}

\* The component's initial state.
DefaultSelected == <<>>
DefaultUser == JStr("")
DefaultCursor == startOfMonth(today)

PrefInit ==
    /\ tz \in TimeZones
    /\ lsMode \in StorageModes
    /\ localStorage \in BlobInputs(tz)
    /\ prefSelectedIds = DefaultSelected
    /\ prefCurrentUserId = DefaultUser
    /\ prefCursor = DefaultCursor
    /\ prefPeople = <<>>
    /\ prefPhase = "mounting"
    /\ prefFetch = "none"
    /\ prefLoaded = NullBlob
    /\ prefSince = "none"
    /\ prefEnd = NoEnd
    /\ lsWritten = {}
    /\ sawLegacy = "no"
    /\ nSessions = 0
    /\ nPrefEvents = 0
    /\ SyncIdle
    /\ ModelIdle
    /\ HeapIdle
    /\ GridIdle
    /\ GateIdle

Written(by, doc) == [by |-> by, doc |-> doc]

\* The persist effect after a render with state (sel, usr, cur).
Persist(sel, usr, cur) ==
    /\ localStorage' = saveState(lsMode, localStorage, PrefDoc(sel, usr, cur, tz))
    /\ lsWritten' = {Written("persist", PrefDoc(sel, usr, cur, tz))}

HasLegacy(saved) == saved.kind = "object" /\ (DOMAIN saved.fields) \cap LegacyFields # {}

\* The effects of the first commit, in order: the load effect, the persist
\* effect on the initial state, the people query; then the render of the
\* loaded state and its persist effect.  `in` on a primitive throws, which
\* skips the remaining effects and takes the component down.
Mount ==
    /\ prefPhase = "mounting"
    /\ LET saved == loadState(lsMode, localStorage)
           sel   == LoadedSelected(saved, DefaultSelected)
           usr   == LoadedUser(saved, DefaultUser)
           cur   == LoadedCursor(saved, DefaultCursor, tz)
       IN  /\ prefLoaded' = saved
           /\ IF saved.kind \in {"null", "falsy"}
              THEN /\ Persist(DefaultSelected, DefaultUser, DefaultCursor)
                   /\ prefPhase' = "ready"
                   /\ prefFetch' = "sent"
                   /\ UNCHANGED <<prefSelectedIds, prefCurrentUserId, prefCursor, sawLegacy>>
              ELSE IF saved.kind = "primitive"
              THEN /\ prefPhase' = "crashed"
                   /\ lsWritten' = {}
                   /\ UNCHANGED <<localStorage, prefFetch, prefSelectedIds,
                                  prefCurrentUserId, prefCursor, sawLegacy>>
              ELSE /\ prefSelectedIds' = sel
                   /\ prefCurrentUserId' = usr
                   /\ prefCursor' = cur
                   /\ localStorage' = saveState(lsMode, localStorage, PrefDoc(sel, usr, cur, tz))
                   /\ lsWritten' =
                         (IF HasLegacy(saved)
                          THEN {Written("cleanup", StripLegacy(saved))} ELSE {})
                         \cup {Written("persist", PrefDoc(DefaultSelected, DefaultUser,
                                                          DefaultCursor, tz)),
                               Written("persist", PrefDoc(sel, usr, cur, tz))}
                   /\ sawLegacy' = IF HasLegacy(saved) THEN "yes" ELSE sawLegacy
                   /\ prefPhase' = "ready"
                   /\ prefFetch' = "sent"
    /\ prefSince' = "mount"
    /\ UNCHANGED <<lsMode, tz, prefPeople, prefEnd, nSessions, nPrefEvents>>
    /\ UNCHANGED nonPrefVars

\* loadPeople after its await, and the persist effect of the render that
\* follows when a setter changed the state.
PeopleLoaded(res) ==
    /\ prefPhase = "ready"
    /\ prefFetch = "sent"
    /\ IF res.error \/ Len(res.data) = 0
       THEN /\ prefFetch' = "failed"
            /\ lsWritten' = {}
            /\ UNCHANGED <<prefPeople, prefSelectedIds, prefCurrentUserId, localStorage>>
       ELSE LET sel == IF Len(prefSelectedIds) > 0 THEN prefSelectedIds
                       ELSE [k \in 1..Len(res.data) |-> JStr(res.data[k])]
                usr == IF \E k \in 1..Len(res.data) : JStr(res.data[k]) = prefCurrentUserId
                       THEN prefCurrentUserId ELSE JStr("")
            IN  /\ prefFetch' = "ok"
                /\ prefPeople' = res.data
                /\ prefSelectedIds' = sel
                /\ prefCurrentUserId' = usr
                /\ IF sel # prefSelectedIds \/ usr # prefCurrentUserId
                   THEN Persist(sel, usr, prefCursor)
                   ELSE /\ lsWritten' = {}
                        /\ UNCHANGED localStorage
    /\ prefSince' = IF prefSince = "mount" THEN "fetch"
                    ELSE IF prefSince = "click" THEN "user"
                    ELSE prefSince
    /\ prefLoaded' = NullBlob
    /\ UNCHANGED <<lsMode, tz, prefCursor, prefPhase, prefEnd,
                   sawLegacy, nSessions, nPrefEvents>>
    /\ UNCHANGED nonPrefVars

\* A handler that sets a preference, and the persist effect after it.
PrefEvent(sel, usr, cur) ==
    /\ prefPhase = "ready"
    /\ nPrefEvents < MaxPrefEvents
    /\ nPrefEvents' = nPrefEvents + 1
    /\ prefSelectedIds' = sel
    /\ prefCurrentUserId' = usr
    /\ prefCursor' = cur
    /\ Persist(sel, usr, cur)
    /\ prefSince' = "user"
    /\ prefLoaded' = NullBlob
    /\ UNCHANGED <<lsMode, tz, prefPeople, prefPhase, prefFetch,
                   prefEnd, sawLegacy, nSessions>>
    /\ UNCHANGED nonPrefVars

\* toggleSelect with the persist effect.
PrefToggleSelect(personId) ==
    PrefEvent(IF JStr(personId) \in Elements(prefSelectedIds)
              THEN SelectSeq(prefSelectedIds, LAMBDA x : x # JStr(personId))
              ELSE Append(prefSelectedIds, JStr(personId)),
              prefCurrentUserId, prefCursor)

\* The None button with the persist effect.
PrefShowNone == PrefEvent(<<>>, prefCurrentUserId, prefCursor)

\* The select of the current user with the persist effect.
PrefSelectUser(u) ==
    /\ Len(prefPeople) > 0
    /\ JStr(u) # prefCurrentUserId
    /\ PrefEvent(prefSelectedIds, JStr(u), prefCursor)

\* nextMonth with the persist effect.
PrefNextMonth ==
    PrefEvent(prefSelectedIds, prefCurrentUserId,
              startOfMonth(NewDate(getFullYear(prefCursor), getMonth(prefCursor) + 1, 1)))

\* A click on a day cell, which is disabled while currentUserId is falsy:
\* setStatus issues an upsert with person_id = currentUserId.  No
\* preference changes, so the persist effect does not run.
PrefDayClick ==
    /\ prefPhase = "ready"
    /\ ~Falsy(prefCurrentUserId)
    /\ nPrefEvents < MaxPrefEvents
    /\ nPrefEvents' = nPrefEvents + 1
    /\ prefSince' = "click"
    /\ prefLoaded' = NullBlob
    /\ lsWritten' = {}
    /\ UNCHANGED <<localStorage, lsMode, tz, prefSelectedIds, prefCurrentUserId,
                   prefCursor, prefPeople, prefPhase, prefFetch, prefEnd,
                   sawLegacy, nSessions>>
    /\ UNCHANGED nonPrefVars

\* The page is closed and opened again: a new component with the initial
\* state over the same storage key.
Reload ==
    /\ prefPhase \in {"ready", "crashed"}
    /\ nSessions < MaxSessions
    /\ nSessions' = nSessions + 1
    /\ prefEnd' = [valid |-> prefPhase = "ready",
                   S     |-> Elements(prefSelectedIds),
                   u     |-> prefCurrentUserId,
                   c     |-> prefCursor,
                   mode  |-> lsMode]
    /\ prefSelectedIds' = DefaultSelected
    /\ prefCurrentUserId' = DefaultUser
    /\ prefCursor' = DefaultCursor
    /\ prefPeople' = <<>>
    /\ prefPhase' = "mounting"
    /\ prefFetch' = "none"
    /\ prefLoaded' = NullBlob
    /\ prefSince' = "none"
    /\ lsWritten' = {}
    /\ UNCHANGED <<localStorage, lsMode, tz, sawLegacy, nPrefEvents>>
    /\ UNCHANGED nonPrefVars

PrefNext ==
    \/ Mount
    \/ \E res \in PeopleAnswers : PeopleLoaded(res)
    \/ \E id \in Ids(prefPeople) : PrefToggleSelect(id)
    \/ PrefShowNone
    \/ \E u \in Ids(prefPeople) \cup {""} : PrefSelectUser(u)
    \/ PrefNextMonth
    \/ PrefDayClick
    \/ Reload

SpecPrefs == PrefInit /\ [][PrefNext]_vars

\* C15 (as stated): every value written to local storage has only the
\* fields selected, currentUserId and cursor, and once the load effect has
\* run on a blob with legacy availability or people fields the stored blob
\* no longer contains them, whatever happens later.
C15_OnlyPrefFieldsAndStripped ==
    /\ \A w \in lsWritten : DOMAIN w.doc.fields \subseteq PrefFields
    /\ sawLegacy = "yes" => ~HasLegacy(localStorage)

\* C15 (amended): no value written to local storage has an availability or
\* people field; every value the persist effect writes has exactly the
\* fields selected, currentUserId and cursor; the clean-up write keeps the
\* loaded blob's other fields; and where the storage accepts writes, once
\* the load effect has run on a blob with legacy fields the stored blob
\* never contains them again.
C15_NoSharedStateStored ==
    /\ \A w \in lsWritten :
          /\ (DOMAIN w.doc.fields) \cap LegacyFields = {}
          /\ w.by = "persist" => DOMAIN w.doc.fields = PrefFields
    /\ (sawLegacy = "yes" /\ lsMode = "ok") =>
          /\ ~HasLegacy(localStorage)
          /\ prefPhase = "ready" => DOMAIN localStorage.fields = PrefFields

\* The load effect ran on a legacy blob in a working storage, and a later
\* handler has written the preferences again.
C15_Witness ==
    /\ sawLegacy = "yes"
    /\ lsMode = "ok"
    /\ prefSince = "user"
    /\ \E w \in lsWritten : w.by = "persist"

\* The clean-up write of a legacy blob, as the load effect leaves it.
C15_WitnessCleanup ==
    /\ prefSince = "mount"
    /\ \E w \in lsWritten : w.by = "cleanup" /\ "theme" \in DOMAIN w.doc.fields

\* The roster ids as the stored values they are.
RosterValues == {JStr(id) : id \in Ids(prefPeople)}

\* A session ended in a working storage, and the next one has run its load
\* effect, its persist effect and a people fetch whose roster has the
\* earlier session's current user; nothing else has happened since.
NextSessionSettled ==
    /\ prefEnd.valid
    /\ lsMode = "ok"
    /\ prefPhase = "ready"
    /\ prefFetch = "ok"
    /\ prefSince = "fetch"
    /\ prefEnd.u \in RosterValues

\* C16: if a session ends with selection S, current user u and cursor c,
\* the next session, once its load effect, its persist effect and the
\* people fetch (whose roster contains u) have run, has selection S,
\* current user u and cursor c, for every S including the empty set, and
\* the stored blob again holds S, u and c.  Stated for a storage that
\* works, the reading most favourable to the claim.
C16_PrefsPersist ==
    NextSessionSettled =>
        /\ Elements(prefSelectedIds) = prefEnd.S
        /\ prefCurrentUserId = prefEnd.u
        /\ prefCursor = prefEnd.c
        /\ Elements(Field(localStorage, "selected").q) = prefEnd.S
        /\ Field(localStorage, "currentUserId") = prefEnd.u
        /\ Field(localStorage, "cursor") = toISOString(prefEnd.c, tz)

\* What the code does: the current user and the cursor come back, and so
\* does a selection that is not empty; an empty selection comes back as
\* the whole roster.
C16_PersistsButEmptySelection ==
    NextSessionSettled =>
        /\ Elements(prefSelectedIds) =
              (IF prefEnd.S = {} THEN RosterValues ELSE prefEnd.S)
        /\ prefCurrentUserId = prefEnd.u
        /\ prefCursor = prefEnd.c
        /\ localStorage = PrefDoc(prefSelectedIds, prefCurrentUserId, prefCursor, tz)

\* The earlier session ended with nobody selected, in a month other than
\* today's.
C16_WitnessEmpty ==
    /\ NextSessionSettled
    /\ prefEnd.S = {}
    /\ prefSelectedIds # <<>>

\* The earlier session ended with one person selected, east of Greenwich,
\* in a month other than today's.
C16_WitnessKept ==
    /\ NextSessionSettled
    /\ prefEnd.S = {JStr("p1")}
    /\ prefEnd.c # DefaultCursor
    /\ tz > 0

\* The shape each stored field is meant to have.
WellFormedSelected(v) == IsArray(v) /\ \A k \in 1..Len(v.q) : v.q[k].t = "string"
WellFormedUser(v) == v.t = "string"
WellFormedCursor(v, zone) == DateFromISO(v, zone).valid

\* C20: loading the persisted preferences never fails and validates field
\* by field: an unreadable or unparsable blob yields all defaults; of a
\* parsed blob each of selected, currentUserId and cursor that has the
\* wrong shape or type is ignored (the state keeps its default) while the
\* well-formed fields are loaded; no wrongly-typed value reaches the state.
C20_LoadValidates ==
    /\ prefPhase # "crashed"
    /\ prefSince = "mount" =>
          /\ prefSelectedIds =
                (IF WellFormedSelected(Field(prefLoaded, "selected"))
                 THEN NewSet(Field(prefLoaded, "selected").q) ELSE DefaultSelected)
          /\ prefCurrentUserId =
                (IF WellFormedUser(Field(prefLoaded, "currentUserId"))
                 THEN Field(prefLoaded, "currentUserId") ELSE DefaultUser)
          /\ prefCursor =
                (IF WellFormedCursor(Field(prefLoaded, "cursor"), tz)
                 THEN startOfMonth(DateFromISO(Field(prefLoaded, "cursor"), tz).day)
                 ELSE DefaultCursor)
    /\ \A k \in 1..Len(prefSelectedIds) : prefSelectedIds[k].t = "string"
    /\ prefCurrentUserId.t = "string"

\* The load effect has run on a blob whose currentUserId is a number.
C20_WitnessNumber ==
    /\ prefSince = "mount"
    /\ Field(prefLoaded, "currentUserId") = JNum(5)
    /\ prefCurrentUserId = JNum(5)

\* The load effect has run on a blob that parses to a truthy primitive.
C20_WitnessPrimitive ==
    /\ prefLoaded.kind = "primitive"
    /\ prefPhase = "crashed"

\* C23: in every reachable state the current-user id is empty or the id of
\* a person of the loaded roster, so a day click never issues an upsert
\* for a person id that is not in the people list: before the people
\* fetch completes, when it fails or returns no rows, and after it
\* succeeds.
C23_CurrentUserInRoster ==
    /\ prefCurrentUserId = JStr("") \/ prefCurrentUserId \in RosterValues
    /\ prefSince = "click" => prefCurrentUserId \in RosterValues

\* What the code ensures: once a people fetch has succeeded the current
\* user is empty or in the roster, and stays so in that session.
C23_InRosterOnceFetched ==
    prefFetch = "ok" =>
        prefCurrentUserId = JStr("") \/ prefCurrentUserId \in RosterValues

\* A day has been clicked, and an upsert issued, for a persisted user id
\* while no roster is loaded.
C23_Witness ==
    /\ prefSince = "click"
    /\ prefPeople = <<>>
    /\ prefCurrentUserId \notin RosterValues

\* The fetch has reset a persisted id that is not in the roster.
C23_WitnessReset ==
    /\ prefFetch = "ok"
    /\ prefSince = "fetch"
    /\ prefCurrentUserId = JStr("")
    /\ lsWritten # {}

(* ---------------------------- Password gate ---------------------------- *)

\* Handler runs and reloads in one run.
MaxGateEvents == 4

APP_PASSWORD == "changeme"
IncorrectPassword == "Incorrect password"

\* What the user may type, and what the storage may hold under UNLOCK_KEY.
PwInputs == {"", "changeme", "Changeme", "changeme "}
FlagValues == {"absent", "1", "0"}

\* The initialiser of `unlocked`: getItem(UNLOCK_KEY) === "1", false when
\* getItem throws.
ReadUnlocked(mode, flag) == mode # "disabled" /\ flag = "1"

\* setItem(UNLOCK_KEY, "1") and removeItem(UNLOCK_KEY) with the exception
\* swallowed: the stored value afterwards.  A full storage refuses the
\* write but not the removal.
SetFlag(mode, flag) == IF mode = "ok" THEN "1" ELSE flag
RemoveFlag(mode, flag) == IF mode = "disabled" THEN flag ELSE "absent"

\* Mutant: the children are rendered whatever the state.
Render_Always(u) == "calendar"

\* The render: the password form while locked, else the Lock button and
\* the children (the calendar).
Render(u) == IF u THEN "calendar" ELSE "form"

GateInit ==
    /\ gateStorage \in StorageModes
    /\ unlockFlag \in FlagValues
    /\ unlocked = ReadUnlocked(gateStorage, unlockFlag)
    /\ pw = ""
    /\ error = NoError
    /\ gateShows = Render(unlocked)
    /\ gateOp = "start"
    /\ nGateEvents = 0
    /\ SyncIdle
    /\ ModelIdle
    /\ HeapIdle
    /\ GridIdle
    /\ PrefIdle

GateEvent == nGateEvents < MaxGateEvents /\ nGateEvents' = nGateEvents + 1

\* onChange of the password input.
setPw(text) ==
    /\ GateEvent
    /\ gateShows = "form"
    /\ text # pw
    /\ pw' = text
    /\ gateShows' = Render(unlocked)
    /\ gateOp' = "type"
    /\ UNCHANGED <<unlocked, error, unlockFlag, gateStorage>>
    /\ UNCHANGED nonGateVars

\* Mutant: the comparison trims the input and ignores case.
submit_Lenient ==
    /\ GateEvent
    /\ gateShows = "form"
    /\ IF pw \in {"changeme", "Changeme", "changeme "}
       THEN /\ unlocked' = TRUE
            /\ error' = NoError
            /\ unlockFlag' = SetFlag(gateStorage, unlockFlag)
       ELSE /\ error' = IncorrectPassword
            /\ UNCHANGED <<unlocked, unlockFlag>>
    /\ gateShows' = Render(unlocked')
    /\ gateOp' = "submit"
    /\ UNCHANGED <<pw, gateStorage>>
    /\ UNCHANGED nonGateVars

\* onSubmit of the form.
submit ==
    /\ GateEvent
    /\ gateShows = "form"
    /\ IF pw = APP_PASSWORD
       THEN /\ unlocked' = TRUE
            /\ error' = NoError
            /\ unlockFlag' = SetFlag(gateStorage, unlockFlag)
       ELSE /\ error' = IncorrectPassword
            /\ UNCHANGED <<unlocked, unlockFlag>>
    /\ gateShows' = Render(unlocked')
    /\ gateOp' = "submit"
    /\ UNCHANGED <<pw, gateStorage>>
    /\ UNCHANGED nonGateVars

\* onClick of the Lock button, which is rendered with the children.
lock ==
    /\ GateEvent
    /\ gateShows = "calendar"
    /\ unlocked' = FALSE
    /\ pw' = ""
    /\ error' = NoError
    /\ unlockFlag' = RemoveFlag(gateStorage, unlockFlag)
    /\ gateShows' = Render(unlocked')
    /\ gateOp' = "lock"
    /\ UNCHANGED gateStorage
    /\ UNCHANGED nonGateVars

\* A click on a day cell of the calendar, when it is rendered.
GateDayClick ==
    /\ GateEvent
    /\ gateShows = "calendar"
    /\ gateOp' = "dayClick"
    /\ UNCHANGED <<unlocked, pw, error, unlockFlag, gateStorage, gateShows>>
    /\ UNCHANGED nonGateVars

\* The page is opened again, in a browser whose storage may by then work
\* or fail differently: the gate is constructed anew.
GateReload ==
    /\ GateEvent
    /\ gateStorage' \in StorageModes
    /\ unlocked' = ReadUnlocked(gateStorage', unlockFlag)
    /\ pw' = ""
    /\ error' = NoError
    /\ gateShows' = Render(unlocked')
    /\ gateOp' = "start"
    /\ UNCHANGED unlockFlag
    /\ UNCHANGED nonGateVars

GateNext ==
    \/ \E text \in PwInputs : setPw(text)
    \/ submit
    \/ lock
    \/ GateDayClick
    \/ GateReload

SpecGate == GateInit /\ [][GateNext]_vars

\* The parts of C21 other than what lock does to the persisted flag: the
\* calendar is rendered, and a day clicked, only while the gate is
\* unlocked; the gate becomes unlocked only by a submit of the password
\* or by a flag read at start; a wrong password leaves it locked with the
\* error; lock locks.
GateGuards ==
    /\ gateShows = "calendar" => unlocked
    /\ (gateShows = "calendar" => unlocked)'
    /\ gateOp' = "dayClick" => unlocked /\ unlocked'
    /\ (~unlocked /\ unlocked') =>
          \/ gateOp' = "submit" /\ pw = APP_PASSWORD
          \/ gateOp' = "start" /\ unlockFlag = "1"
    /\ (gateOp = "start" /\ unlocked) => unlockFlag = "1"
    /\ (gateOp' = "submit" /\ pw # APP_PASSWORD) =>
          ~unlocked' /\ error' = IncorrectPassword
    /\ gateOp' = "lock" => ~unlocked'

\* C21 (as stated): the calendar, and so any day click, is rendered only
\* while the gate is unlocked; the gate becomes unlocked only by
\* submitting the shared password or by a persisted flag read at start; a
\* wrong password leaves it locked with an error; lock returns it to
\* locked and removes the persisted flag.
C21_GateAndLockRemovesFlag ==
    [][GateGuards /\ (gateOp' = "lock" => unlockFlag' = "absent")]_vars

\* C21 (amended): as stated, except that lock removes the persisted flag
\* only where the storage call does not throw; where it throws the flag
\* stays as it was.
C21_PasswordGate ==
    [][/\ GateGuards
       /\ gateOp' = "lock" =>
             unlockFlag' = (IF gateStorage = "disabled" THEN unlockFlag ELSE "absent")]_vars

\* The gate was unlocked with the password and has been locked again: the
\* form is shown and the flag is gone.
C21_Witness ==
    /\ gateOp = "lock"
    /\ ~unlocked
    /\ gateShows = "form"
    /\ unlockFlag = "absent"
    /\ gateStorage = "ok"
    /\ nGateEvents >= 3

\* The gate has been locked in a session whose storage throws: the flag
\* of an earlier session stays.
C21_WitnessFlagStays ==
    /\ gateOp = "lock"
    /\ ~unlocked
    /\ gateStorage = "disabled"
    /\ unlockFlag = "1"

====
